---- MODULE Spec2Model ----
(***************************************************************************)
(* BookBrain: the ingest orchestration (api/routes.py trigger_ingest,      *)
(* ingest/pipeline.py IngestPipeline.run), the record store (db/crud.py,   *)
(* db/models.py) and the FAISS vector store (search/vector_store.py).      *)
(*                                                                         *)
(* The server is one asyncio event loop: the code between two awaits runs  *)
(* atomically with respect to every other coroutine, so an action is the   *)
(* code from one await to the next.                                        *)
(***************************************************************************)
EXTENDS Integers, Sequences, FiniteSets, TLC

\* ------------------------------------------------------------------ bounds
MaxTriggers == 2     \* POST /api/ingest requests received
NumFiles == 2        \* ebook files in the library directory
MaxAdds == 2         \* add_text calls of an API-level client (SpecVS)
MaxRestarts == 1     \* process restarts (SpecVS)
MaxPairs == 2        \* longest input of rebuild (SpecVS)
MaxRebuilds == 1     \* rebuild calls (SpecVS)
MaxSaves == 1        \* save calls (SpecVS)
MaxCalls == 3        \* calls of the store in all (SpecQ)
MaxTextLen == 5      \* words of the text given to classify (SpecC)
MaxDeletes == 1      \* records deleted through the API (SpecD)

\* ------------------------------------------------------- program constants
SaveEvery == 10      \* vector_store.py:101  if self._next_id % 10 == 0
batch_size == 2      \* config.py:53 settings.batch_size (BOOKBRAIN_BATCH_SIZE)

MinRuleScore == 3    \* classifier.py:112  if best_score >= 3
KeywordCap == 5      \* classifier.py:102  min(count, 5)
MlThreshold == 30    \* classifier.py:140  if best_score < 0.3 (times 100)
scanned_text_threshold_x10 == 1   \* config.py:44  0.1, in tenths
max_workers == 4     \* config.py:51  size of the pipeline's thread pool

None_ == 0 - 1       \* Python None (also FAISS's "no match" index -1)

\* ------------------------------------------------------------- file system
\* "lib" holds files 1..NumFiles, the last of them inside "lib/sub";
\* "empty" exists and holds no ebook; "missing" does not exist.
Files == 1..NumFiles
DirExists(d) == d \in {"lib", "lib/sub", "empty"}
DirFiles(d) ==
  CASE d = "lib" -> [i \in 1..NumFiles |-> i]
    [] d = "lib/sub" -> <<NumFiles>>
    [] OTHER -> <<>>

\* Scanner.scan: the files of every existing root, in root order; a root
\* listed twice, or nested in another root, contributes its files again.
RECURSIVE scan(_)
scan(dirs) ==
  IF dirs = <<>> THEN <<>>
  ELSE (IF DirExists(Head(dirs)) THEN DirFiles(Head(dirs)) ELSE <<>>)
       \o scan(Tail(dirs))

\* settings.ebook_directories with the default ebook_dirs = ""
ebook_directories == <<>>

\* request.directories of a trigger request (<<>>: none given); one of them
\* lists a root twice
DirChoices ==
  { <<>>, <<"lib">>, <<"lib/sub", "lib/sub">>, <<"empty">>, <<"missing">> }

\* --------------------------------------------------------------- embedding
\* _encode: text -> unit-normalised vector, here 2-dimensional with the
\* components scaled by 10 (6*6 + 8*8 = 10*10).
Texts == 1..3
ModelEncode(text) ==
  CASE text = 1 -> <<10, 0>>
    [] text = 2 -> <<0, 10>>
    [] OTHER -> <<6, 8>>

\* text_for_embedding of the book ingested from file f
TextOfFile(f) == ((f - 1) % 3) + 1

VARIABLES
  st,          \* the IngestStatus objects made the global _ingest_status, in
               \* order: the global is the last one, and an object no run
               \* refers to any more is forgotten (a fresh one stands for it)
  reqs,        \* trigger requests: how many were received and how many of
               \* them wait for the handler body, and the last response
  tasks,       \* run_pipeline tasks, one per accepted trigger; of a task
               \* that ended only its summary is kept once the next one starts
  books,       \* the books table; the id is the position
  loaded,      \* VectorStore._index is not None
  index,       \* the vectors of VectorStore._index, position = FAISS id
  id_map,      \* VectorStore._id_map
  next_id,     \* VectorStore._next_id
  disk_index,  \* faiss.index on disk
  disk_map,    \* id_map.npy on disk
  add,         \* the add_text call in flight
  save,        \* the _save_index call in flight
  ret_ids,     \* history: the vector ids returned by the successful add_text
               \* calls on the present index (rebuild starts a new index)
  calls,       \* SpecVS: client calls and restarts so far
  search,      \* the VectorStore.search call in flight, then its result
  cls,         \* the Classifier.classify call: its input, tier and result
  ocr          \* the scanned-PDF step of _process_single_file for one file

vars == << st, reqs, tasks, books, loaded, index, id_map, next_id,
           disk_index, disk_map, add, save, ret_ids, calls, search, cls,
           ocr >>

\* what the ingest and the store's writers leave alone
aux == << search, cls, ocr >>

vsvars == << loaded, index, id_map, next_id, disk_index, disk_map, add,
             save, ret_ids >>

\* ------------------------------------------------------------ IngestStatus
\* progress_percent is kept exact, as the fraction num/den.
IngestStatus(running) ==
  [ is_running |-> running, total_files |-> 0, processed_files |-> 0,
    failed_files |-> 0, current_file |-> None_, errors |-> <<>>,
    progress_percent |-> <<0, 1>> ]

Global == Len(st)

\* ------------------------------------------------------------ record store
\* select(Book).where(Book.file_path == file_path): the id, or None
get_book_by_path_skipped(file_path) == None_

get_book_by_path(file_path) ==
  IF \E i \in 1..Len(books) : books[i].file_path = file_path
  THEN CHOOSE i \in 1..Len(books) : books[i].file_path = file_path
  ELSE None_

\* Book.file_path is unique=True: an insert of a stored path raises.
PathStored(file_path) ==
  \E i \in 1..Len(books) : books[i].file_path = file_path

Book(file_path) == [ file_path |-> file_path, vector_id |-> None_ ]

\* The row of a deleted record: positions stand for ids, so the row stays,
\* with no path; its id is not given to a later record.
Deleted == [ file_path |-> None_, vector_id |-> None_ ]

Exists(book_id) ==
  book_id \in 1..Len(books) /\ books[book_id] # Deleted

\* A library of n books ingested earlier in this process from elsewhere.
PriorBooks(n) == [ i \in 1..n |-> [ file_path |-> 100 + i, vector_id |-> i - 1 ] ]
PriorIndex(n) == [ i \in 1..n |-> ModelEncode(3) ]
PriorMap(n) == [ v \in 0..(n - 1) |-> v + 1 ]

NoFile == [ exists |-> FALSE ]
IdleAdd == [ pc |-> "idle" ]
IdleSave == [ pc |-> "idle" ]
IdleSearch == [ pc |-> "idle", count |-> 0 ]
IdleCls == [ pc |-> "idle" ]
IdleOcr == [ pc |-> "idle" ]

\* ------------------------------------------------------------- VectorStore
MapPut(m, k, v) == [ x \in (DOMAIN m) \cup {k} |-> IF x = k THEN v ELSE m[x] ]

\* _get_index: the index, mapping and counter once the index is initialised.
\* A first use loads faiss.index when it exists, and the side-car only when
\* that exists too; with no index file a new empty index is created.
_get_index ==
  IF loaded
  THEN [ index |-> index, id_map |-> id_map, next_id |-> next_id ]
  ELSE IF disk_index.exists
       THEN IF disk_map.exists
            THEN [ index |-> disk_index.vecs, id_map |-> disk_map.id_map,
                   next_id |-> disk_map.next_id ]
            ELSE [ index |-> disk_index.vecs, id_map |-> id_map,
                   next_id |-> next_id ]
       ELSE [ index |-> <<>>, id_map |-> <<>>, next_id |-> 0 ]

\* add_text lines 95-98 on the initialised state g
AddVector(g, vec, book_id) ==
  [ index |-> Append(g.index, vec),
    id_map |-> MapPut(g.id_map, g.next_id, book_id),
    next_id |-> g.next_id + 1 ]

\* add_text line 101
SaveDue_before_increment(n) == (n - 1) % SaveEvery = 0

SaveDue(n) == n % SaveEvery = 0

\* add_text returns: the vector id, or None from the except branch
AddReturns(result) ==
  /\ add' = [ add EXCEPT !.pc = "returned", !.result = result ]
  /\ ret_ids' = IF result # None_ THEN Append(ret_ids, result) ELSE ret_ids

\* await run_in_executor(None, self._encode, text) completes, then lines
\* 94-104 up to the next await.
AddEncode ==
  /\ add.pc = "encode"
  /\ \/ \* _encode raises
        /\ AddReturns(None_)
        /\ UNCHANGED << loaded, index, id_map, next_id, save >>
     \/ \* index.add raises after _get_index
        LET g == _get_index IN
        /\ loaded' = TRUE
        /\ index' = g.index
        /\ id_map' = g.id_map
        /\ next_id' = g.next_id
        /\ AddReturns(None_)
        /\ UNCHANGED save
     \/ LET g == _get_index
            h == AddVector(g, ModelEncode(add.text), add.book_id)
        IN
        /\ loaded' = TRUE
        /\ index' = h.index
        /\ id_map' = h.id_map
        /\ next_id' = h.next_id
        /\ IF SaveDue(h.next_id)
           THEN /\ add' = [ add EXCEPT !.pc = "saving", !.vector_id = g.next_id ]
                /\ save' = [ pc |-> "write_index", by |-> "add" ]
                /\ UNCHANGED ret_ids
           ELSE /\ AddReturns(g.next_id)
                /\ UNCHANGED save
  /\ UNCHANGED << disk_index, disk_map >>

\* _save_index ends: normally, or by an exception of one of its two writes;
\* rebuilt tells how the rebuild call it belonged to ended, prior how many
\* vectors that call discarded.
SaveEnds(ok) ==
  /\ save' = IF save.by = "rebuild"
             THEN [ pc |-> "idle", rebuilt |-> ok, prior |-> save.prior ]
             ELSE IdleSave
  /\ IF save.by = "add"
     THEN AddReturns(IF ok THEN add.vector_id ELSE None_)
     ELSE UNCHANGED << add, ret_ids >>

\* faiss.write_index(self._index, index_path)
SaveWriteIndex ==
  /\ save.pc = "write_index"
  /\ \/ /\ disk_index' = [ exists |-> TRUE, vecs |-> index ]
        /\ save' = [ save EXCEPT !.pc = "write_map" ]
        /\ UNCHANGED << add, ret_ids >>
     \/ /\ SaveEnds(FALSE)
        /\ UNCHANGED disk_index
  /\ UNCHANGED << loaded, index, id_map, next_id, disk_map >>

\* np.save(map_path, {"id_map": ..., "next_id": ...})
SaveWriteMap ==
  /\ save.pc = "write_map"
  /\ \/ /\ disk_map' = [ exists |-> TRUE, id_map |-> id_map, next_id |-> next_id ]
        /\ SaveEnds(TRUE)
     \/ /\ SaveEnds(FALSE)
        /\ UNCHANGED disk_map
  /\ UNCHANGED << loaded, index, id_map, next_id, disk_index >>

\* ------------------------------------------------------------- trigger_ingest
\* routes.py line 184: the single-run guard reads the global status
AlreadyRunning_unguarded == FALSE

AlreadyRunning == st[Global].is_running

\* A POST /api/ingest request is received (its session dependency resolved);
\* the handler body has not run yet.
TriggerArrive ==
  /\ reqs.received < MaxTriggers
  /\ reqs' = [ reqs EXCEPT !.received = @ + 1, !.pending = @ + 1 ]
  /\ UNCHANGED << st, tasks, books, vsvars, calls, aux >>

\* The response of the handler body to one of the waiting requests
Respond(code) == [ reqs EXCEPT !.pending = @ - 1, !.last = code ]

NewTask(dirs) ==
  [ pc |-> "created", dirs |-> dirs, status |-> 0, files |-> <<>>, idx |-> 0,
    book |-> None_, exc |-> "", clean |-> FALSE, new_records |-> 0,
    new_vectors |-> 0 ]

\* What is kept of an ended task: its directories and how it ended.
Summary(task) ==
  IF task.pc = "done"
  THEN [ NewTask(task.dirs) EXCEPT !.pc = "done", !.exc = task.exc,
                                   !.clean = task.clean ]
  ELSE task

\* The status objects still referred to: the global and those of live tasks.
Live(i) ==
  \/ i = Global
  \/ \E t \in 1..Len(tasks) : tasks[t].pc # "done" /\ tasks[t].status = i

\* routes.py line 209: _ingest_status = IngestStatus(is_running=True)
NewStatus_reused == [ st[Global] EXCEPT !.is_running = TRUE ]

NewStatus == IngestStatus(TRUE)

\* raise HTTPException(status_code=code) at lines 185, 198 and 206: the
\* handler ends before line 208
Rejected_after_reset(code) ==
  /\ reqs' = Respond(code)
  /\ st' = [ st EXCEPT ![Global] = IngestStatus(FALSE) ]
  /\ UNCHANGED tasks

Rejected(code) ==
  /\ reqs' = Respond(code)
  /\ UNCHANGED << st, tasks >>

\* The handler body, lines 182-222: no await between the guard and the
\* assignment of the new status, so it is one step of the event loop.
TriggerBody(directories) ==
  /\ reqs.pending > 0
  /\ IF AlreadyRunning
     THEN Rejected("409")
     ELSE LET dirs == IF directories # <<>> THEN directories
                      ELSE ebook_directories
          IN
          IF dirs = <<>> \/ \E i \in 1..Len(dirs) : ~DirExists(dirs[i])
          THEN Rejected("400")
          ELSE /\ st' = Append([ i \in 1..Len(st) |->
                                   IF Live(i) /\ i # Global THEN st[i]
                                   ELSE IngestStatus(FALSE) ],
                                NewStatus)
               /\ tasks' = Append([ t \in 1..Len(tasks) |-> Summary(tasks[t]) ],
                                  NewTask(dirs))
               /\ reqs' = Respond("200")
  /\ UNCHANGED << books, vsvars, calls, aux >>

\* ------------------------------------------------------------- run_pipeline
ErrorEntry(file, error) == [ file |-> file, error |-> error ]

\* run_pipeline lines 216-219 on the status objects ss: the except branch
\* appends str(e) to the global status, the finally branch clears is_running.
run_pipeline_exit_no_finally(ss, exc) ==
  IF exc # ""
  THEN [ ss EXCEPT ![Global].errors = Append(@, ErrorEntry(None_, exc)) ]
  ELSE [ ss EXCEPT ![Global].is_running = FALSE ]

run_pipeline_exit(ss, exc) ==
  LET s1 == IF exc # ""
            THEN [ ss EXCEPT ![Global].errors = Append(@, ErrorEntry(None_, exc)) ]
            ELSE ss
  IN [ s1 EXCEPT ![Global].is_running = FALSE ]

\* pipeline.run returned or raised exc: the task ends.
EndRun(t, ss, task, exc) ==
  /\ st' = run_pipeline_exit(ss, exc)
  /\ tasks' = [ tasks EXCEPT ![t] =
                  [ task EXCEPT !.pc = "done", !.exc = exc,
                                !.clean = (exc = "" /\ task.status # 0
                                           /\ ss[task.status].failed_files = 0) ] ]

\* run lines 137-139 for the file at position i (from 0) of the scan
EnterFile(s, files, i) ==
  [ s EXCEPT !.current_file = files[i + 1],
             !.progress_percent = << i * 100, Len(files) >> ]

\* run lines 188-190
Complete_reset(s) ==
  [ s EXCEPT !.progress_percent = << 0, 1 >>, !.current_file = None_ ]

Complete(s) ==
  [ s EXCEPT !.progress_percent = << 100, 1 >>, !.current_file = None_ ]

\* The loop goes on after the file at task.idx, whose status updates gave s:
\* to the next file's existence check, or to completion and the task's end.
Continue(t, task, s) ==
  LET i == task.idx + 1 IN
  IF i < Len(task.files)
  THEN /\ st' = [ st EXCEPT ![task.status] = EnterFile(s, task.files, i) ]
       /\ tasks' = [ tasks EXCEPT ![t] =
                       [ task EXCEPT !.pc = "check", !.idx = i, !.book = None_ ] ]
  ELSE EndRun(t, [ st EXCEPT ![task.status] = Complete(s) ],
              [ task EXCEPT !.idx = i, !.book = None_ ], "")

\* run lines 180-186: a failed file
FileFailed_and_processed(s, file, error) ==
  [ s EXCEPT !.failed_files = @ + 1, !.processed_files = @ + 1,
             !.errors = Append(@, ErrorEntry(file, error)) ]

FileFailed(s, file, error) ==
  [ s EXCEPT !.failed_files = @ + 1,
             !.errors = Append(@, ErrorEntry(file, error)) ]

\* run lines 147 and 176
FileProcessed_uncounted(s) == s

FileProcessed(s) == [ s EXCEPT !.processed_files = @ + 1 ]

\* run lines 163-176 once the record is stored: whatever add_text returned
\* (result), and also when the indexing raised (raised), the except branch
\* of line 172 only logs, and line 176 counts the file as processed.
Indexed_counting_failures(s, file, result, raised) ==
  IF raised \/ result = None_
  THEN FileFailed(s, file, "index")
  ELSE FileProcessed(s)

Indexed(s, file, result, raised) == FileProcessed(s)

CurrentFile(task) == task.files[task.idx + 1]

\* The task starts: run lines 123-143 up to the first await.
RunStart(t) ==
  /\ tasks[t].pc = "created"
  /\ LET task == [ tasks[t] EXCEPT !.status = Global ] IN
     \/ \* scanner.scan raises (an unreadable directory)
        EndRun(t, st, task, "scan")
     \/ LET files == scan(task.dirs)
            s == [ st[Global] EXCEPT !.total_files = Len(files) ]
        IN
        IF files = <<>>
        THEN EndRun(t, [ st EXCEPT ![Global] = s ], task, "")
        ELSE /\ st' = [ st EXCEPT ![Global] = EnterFile(s, files, 0) ]
             /\ tasks' = [ tasks EXCEPT ![t] =
                             [ task EXCEPT !.pc = "check", !.files = files ] ]
  /\ UNCHANGED << reqs, books, vsvars, calls, aux >>

\* await get_book_by_path returns or raises: run lines 142-153.
Check(t) ==
  /\ tasks[t].pc = "check"
  /\ LET task == tasks[t] IN
     \/ \* the lookup raises: nothing in run catches it
        EndRun(t, st, task, "lookup")
     \/ /\ get_book_by_path(CurrentFile(task)) # None_
        /\ st' = [ st EXCEPT ![task.status] = FileProcessed(@) ]
        /\ tasks' = [ tasks EXCEPT ![t].pc = "skip" ]
     \/ /\ get_book_by_path(CurrentFile(task)) = None_
        /\ tasks' = [ tasks EXCEPT ![t].pc = "worker" ]
        /\ UNCHANGED st
  /\ UNCHANGED << reqs, books, vsvars, calls, aux >>

\* The session of a skipped file is closed (an await), then `continue`.
SkipExit(t) ==
  /\ tasks[t].pc = "skip"
  /\ Continue(t, tasks[t], st[tasks[t].status])
  /\ UNCHANGED << reqs, books, vsvars, calls, aux >>

\* await run_in_executor(self.executor, self._process_single_file, ...)
\* returns: _process_single_file catches every exception itself.
WorkerDone(t) ==
  /\ tasks[t].pc = "worker"
  /\ LET task == tasks[t] IN
     \/ /\ tasks' = [ tasks EXCEPT ![t].pc = "store" ]
        /\ UNCHANGED st
     \/ Continue(t, task, FileFailed(st[task.status], CurrentFile(task), "process"))
  /\ UNCHANGED << reqs, books, vsvars, calls, aux >>

\* create_book and commit end: run lines 157-173 up to the await of add_text.
StoreDone(t) ==
  /\ tasks[t].pc = "store"
  /\ LET task == tasks[t]
         file == CurrentFile(task)
     IN
     \/ \* the insert raises: always for a stored path, possibly otherwise
        /\ Continue(t, task, FileFailed(st[task.status], file, "store"))
        /\ UNCHANGED << books, add >>
     \/ /\ ~PathStored(file)
        /\ books' = Append(books, Book(file))
        /\ \/ \* the import of the vector store raises: logged, swallowed
              /\ Continue(t, [ task EXCEPT !.new_records = @ + 1 ],
                          Indexed(st[task.status], file, None_, TRUE))
              /\ UNCHANGED add
           \/ /\ add.pc = "idle"
              /\ add' = [ pc |-> "encode", text |-> TextOfFile(file),
                          book_id |-> Len(books) + 1, vector_id |-> None_,
                          result |-> None_ ]
              /\ tasks' = [ tasks EXCEPT ![t].pc = "index",
                                         ![t].book = Len(books) + 1,
                                         ![t].new_records = @ + 1 ]
              /\ UNCHANGED st
  /\ UNCHANGED << reqs, loaded, index, id_map, next_id, disk_index, disk_map,
                  save, ret_ids, calls, aux >>

\* await vector_store.add_text returns: run lines 169-177.
IndexDone(t) ==
  /\ tasks[t].pc = "index"
  /\ add.pc = "returned"
  /\ LET task == tasks[t] IN
     /\ \/ \* book.vector_id = vector_id is committed
           /\ add.result # None_
           /\ Exists(task.book)
           /\ books' = [ books EXCEPT ![task.book].vector_id = add.result ]
        \/ \* add_text returned None, or the commit raises: logged, swallowed
           UNCHANGED books
     /\ Continue(t, [ task EXCEPT !.new_vectors =
                        @ + (IF add.result # None_ THEN 1 ELSE 0) ],
                 Indexed(st[task.status], CurrentFile(task), add.result, FALSE))
  /\ add' = IdleAdd
  /\ UNCHANGED << reqs, loaded, index, id_map, next_id, disk_index, disk_map,
                  save, ret_ids, calls, aux >>

\* ---------------------------------------------------------------- the server
InitServer ==
  /\ st = << IngestStatus(FALSE) >>
  /\ reqs = [ received |-> 0, pending |-> 0, last |-> "" ]
  /\ tasks = <<>>
  /\ \E n \in {0, SaveEvery - 1} :
       /\ books = PriorBooks(n)
       /\ loaded = (n > 0)
       /\ index = PriorIndex(n)
       /\ id_map = PriorMap(n)
       /\ next_id = n
  /\ disk_index = NoFile
  /\ disk_map = NoFile
  /\ add = IdleAdd
  /\ save = IdleSave
  /\ ret_ids = <<>>
  /\ calls = [ adds |-> 0, restarts |-> 0, rebuilds |-> 0, saves |-> 0 ]
  /\ search = IdleSearch

Init == InitServer /\ cls = IdleCls /\ ocr = IdleOcr

AddStep ==
  /\ \/ AddEncode
     \/ SaveWriteIndex
     \/ SaveWriteMap
  /\ UNCHANGED << st, reqs, tasks, books, calls, aux >>

RunStep ==
  \E t \in 1..Len(tasks) :
    \/ RunStart(t)
    \/ Check(t)
    \/ SkipExit(t)
    \/ WorkerDone(t)
    \/ StoreDone(t)
    \/ IndexDone(t)

Trigger ==
  \/ TriggerArrive
  \/ \E d \in DirChoices : TriggerBody(d)

Next == Trigger \/ RunStep \/ AddStep

Spec == Init /\ [][Next]_vars

\* ------------------------------------------------ the vector store by itself
\* A client of the VectorStore object that makes one call at a time, as the
\* pipeline does, and a process that may stop and start again at any point.
\* The (text, book_id) arguments the client uses.
ClientPairs == { <<1, 2>>, <<2, 1>> }

Idle == add.pc = "idle" /\ save.pc = "idle"

CallAdd(text, book_id) ==
  /\ Idle
  /\ calls.adds < MaxAdds
  /\ add' = [ pc |-> "encode", text |-> text, book_id |-> book_id,
              vector_id |-> None_, result |-> None_ ]
  /\ calls' = [ calls EXCEPT !.adds = @ + 1 ]
  /\ UNCHANGED << loaded, index, id_map, next_id, disk_index, disk_map, save,
                  ret_ids >>

\* The client receives the result of add_text.
AddReturn ==
  /\ add.pc = "returned"
  /\ add' = IdleAdd
  /\ UNCHANGED << loaded, index, id_map, next_id, disk_index, disk_map, save,
                  ret_ids, calls >>

\* save(): _save_index writes only when self._index is not None
ForceSave ==
  /\ Idle
  /\ calls.saves < MaxSaves
  /\ calls' = [ calls EXCEPT !.saves = @ + 1 ]
  /\ save' = IF loaded THEN [ pc |-> "write_index", by |-> "save" ] ELSE save
  /\ UNCHANGED << loaded, index, id_map, next_id, disk_index, disk_map, add,
                  ret_ids >>

PairInputs ==
  UNION { [ 1..n -> ClientPairs ] : n \in 0..MaxPairs }

\* The number of batches of rebuild's loop over n texts
Batches(n) == (n + batch_size - 1) \div batch_size

Min(a, b) == IF a < b THEN a ELSE b

\* rebuild lines 163-186 after m of the pairs were inserted
Rebuilt_no_reset(texts_and_ids, m) ==
  [ index |-> index \o [ i \in 1..m |-> ModelEncode(texts_and_ids[i][1]) ],
    id_map |-> [ v \in (DOMAIN id_map) \cup (next_id..(next_id + m - 1)) |->
                   IF v >= next_id /\ v < next_id + m
                   THEN texts_and_ids[v - next_id + 1][2] ELSE id_map[v] ],
    next_id |-> next_id + m ]

Rebuilt(texts_and_ids, m) ==
  [ index |-> [ i \in 1..m |-> ModelEncode(texts_and_ids[i][1]) ],
    id_map |-> [ v \in 0..(m - 1) |-> texts_and_ids[v + 1][2] ],
    next_id |-> m ]

\* rebuild has no await: the reset and the batches are one step, ended by
\* _save_index, or by the exception of model.encode in batch number done + 1.
Rebuild(texts_and_ids) ==
  /\ Idle
  /\ calls.rebuilds < MaxRebuilds
  /\ calls' = [ calls EXCEPT !.rebuilds = @ + 1 ]
  /\ \E done \in 0..Batches(Len(texts_and_ids)) :
       LET m == Min(done * batch_size, Len(texts_and_ids))
           h == Rebuilt(texts_and_ids, m)
       IN
       /\ loaded' = TRUE
       /\ index' = h.index
       /\ id_map' = h.id_map
       /\ next_id' = h.next_id
       /\ save' = IF done = Batches(Len(texts_and_ids))
                  THEN [ pc |-> "write_index", by |-> "rebuild",
                         pairs |-> texts_and_ids, prior |-> Len(index) ]
                  ELSE save
  /\ ret_ids' = <<>>
  /\ UNCHANGED << disk_index, disk_map, add >>

\* The process ends (also in the middle of a call) and a new one starts:
\* VectorStore.__init__ again, the files stay.
Restart ==
  /\ calls.restarts < MaxRestarts
  /\ calls' = [ calls EXCEPT !.restarts = @ + 1 ]
  /\ loaded' = FALSE
  /\ index' = <<>>
  /\ id_map' = <<>>
  /\ next_id' = 0
  /\ add' = IdleAdd
  /\ save' = IdleSave
  /\ UNCHANGED << disk_index, disk_map, ret_ids >>

Client ==
  \/ \E p \in ClientPairs : CallAdd(p[1], p[2])
  \/ AddReturn
  \/ ForceSave
  \/ \E texts_and_ids \in PairInputs : Rebuild(texts_and_ids)

ClientStep == Client /\ UNCHANGED << st, reqs, tasks, books, aux >>

RestartStep == Restart /\ UNCHANGED << st, reqs, tasks, books, aux >>

NextVS == ClientStep \/ AddStep \/ RestartStep

SpecVS == Init /\ [][NextVS]_vars

\* The store under a client that only adds and saves, across restarts
AdderStep ==
  /\ \/ \E p \in ClientPairs : CallAdd(p[1], p[2])
     \/ AddReturn
     \/ ForceSave
  /\ UNCHANGED << st, reqs, tasks, books, aux >>

NextA == AdderStep \/ AddStep \/ RestartStep

SpecA == Init /\ [][NextA]_vars

\* ------------------------------------------------- the library's other calls
\* DELETE /books/{book_id}: delete_book removes the row (404 when there is
\* none) and the session is committed; the vector store is not told.
DeleteBook(book_id) ==
  /\ Cardinality({ b \in 1..Len(books) : books[b] = Deleted }) < MaxDeletes
  /\ books' = IF Exists(book_id) THEN [ books EXCEPT ![book_id] = Deleted ]
              ELSE books
  /\ UNCHANGED << st, reqs, tasks, vsvars, calls, aux >>

\* The ids asked to be deleted: the first record, and the tenth
DeleteIds == { 1, SaveEvery }

\* The (text, book_id) pairs of the records b and after, in id order
RECURSIVE RecordPairs(_)
RecordPairs(b) ==
  IF b > Len(books) THEN <<>>
  ELSE (IF Exists(b) THEN << << TextOfFile(books[b].file_path), b >> >>
        ELSE <<>>)
       \o RecordPairs(b + 1)

\* rebuild called with the records of the store; the records are not
\* written by it
RebuildFromRecords ==
  /\ Rebuild(RecordPairs(1))
  /\ UNCHANGED << st, reqs, tasks, books, aux >>

NextD ==
  \/ Next
  \/ \E book_id \in DeleteIds : DeleteBook(book_id)
  \/ RebuildFromRecords

SpecD == Init /\ [][NextD]_vars

\* The event loop runs every ready coroutine and the executor threads end
\* their work: a run's next step and a pending add_text step are taken.
FairSpec == Spec /\ WF_vars(RunStep) /\ WF_vars(AddStep)

\* The steps of the coordinating path of a run: all but the return of the
\* unit of work from the thread pool.
CoordinatorStep ==
  \E t \in 1..Len(tasks) :
    \/ RunStart(t)
    \/ Check(t)
    \/ SkipExit(t)
    \/ StoreDone(t)
    \/ IndexDone(t)

\* As FairSpec, but _process_single_file may never return (run_in_executor
\* has no timeout): only the coroutines of the event loop are sure to go on.
HangSpec == Spec /\ WF_vars(CoordinatorStep) /\ WF_vars(AddStep)

\* ------------------------------------------------------ VectorStore.search
\* the inner product of two vectors (components scaled by 10, score by 100)
Dot(a, b) == a[1] * b[1] + a[2] * b[2]

\* index.search(query_vector, k) of IndexFlatIP: k distinct positions, best
\* score first, none left out that scores better than one returned; FAISS
\* does not specify the order among equal scores.
Neighbours(ix, qv, k) ==
  { nb \in [ 1..k -> 0..(Len(ix) - 1) ] :
      /\ \A i, j \in 1..k :
           i < j => /\ nb[i] # nb[j]
                    /\ Dot(ix[nb[i] + 1], qv) >= Dot(ix[nb[j] + 1], qv)
      /\ \A p \in 0..(Len(ix) - 1) :
           (\A i \in 1..k : nb[i] # p) =>
             \A i \in 1..k : Dot(ix[p + 1], qv) <= Dot(ix[nb[i] + 1], qv) }

\* search lines 134-140: the loop over the neighbours from number i on
SearchResults_raising(ix, qv, m, nb, i) ==
  IF \E j \in 1..Len(nb) : nb[j] \notin DOMAIN m THEN <<>>
  ELSE [ j \in 1..Len(nb) |-> << m[nb[j]], Dot(ix[nb[j] + 1], qv) >> ]

RECURSIVE SearchResults(_, _, _, _, _)
SearchResults(ix, qv, m, nb, i) ==
  IF i > Len(nb) THEN <<>>
  ELSE (IF nb[i] = None_ THEN <<>>
        ELSE IF nb[i] \in DOMAIN m
             THEN << << m[nb[i]], Dot(ix[nb[i] + 1], qv) >> >>
             ELSE <<>>)
       \o SearchResults(ix, qv, m, nb, i + 1)

\* search line 131
SearchK_all(top_k, ntotal) == ntotal

SearchK(top_k, ntotal) == IF top_k < ntotal THEN top_k ELSE ntotal

SearchReturns(result, nb, failed) ==
  search' = [ search EXCEPT !.pc = "returned", !.result = result, !.nb = nb,
                            !.n = Len(index), !.failed = failed ]

\* search is called: lines 122-128 up to the await of the encoding. after is
\* the owner of the add_text call that has just returned a vector id for the
\* same text, when there is one.
SearchCall(query, top_k) ==
  /\ search.pc = "idle"
  /\ LET g == _get_index
         s0 == [ pc |-> "encode", count |-> search.count + 1, query |-> query,
                 top_k |-> top_k, result |-> <<>>, nb |-> <<>>,
                 n |-> Len(g.index), failed |-> FALSE,
                 after |-> IF add.pc = "returned" /\ add.result # None_
                              /\ add.text = query
                           THEN add.book_id ELSE None_ ]
     IN
     /\ loaded' = TRUE
     /\ index' = g.index
     /\ id_map' = g.id_map
     /\ next_id' = g.next_id
     /\ search' = IF Len(g.index) = 0 THEN [ s0 EXCEPT !.pc = "returned" ]
                  ELSE s0
  /\ UNCHANGED << disk_index, disk_map, add, save, ret_ids, calls >>

\* The encoding of the query ends: lines 128-146.
SearchEncode ==
  /\ search.pc = "encode"
  /\ \/ \* _encode or index.search raises: the except branch returns []
        SearchReturns(<<>>, <<>>, TRUE)
     \/ LET qv == ModelEncode(search.query)
            k == SearchK(search.top_k, Len(index))
        IN
        \E nb \in Neighbours(index, qv, k) :
          SearchReturns(SearchResults(index, qv, id_map, nb, 1), nb, FALSE)
  /\ UNCHANGED << loaded, index, id_map, next_id, disk_index, disk_map, add,
                  save, ret_ids, calls >>

\* The caller receives the result.
SearchReturn ==
  /\ search.pc = "returned"
  /\ search' = [ pc |-> "idle", count |-> search.count ]
  /\ UNCHANGED << loaded, index, id_map, next_id, disk_index, disk_map, add,
                  save, ret_ids, calls >>

\* ------------------------------------------- the vector store with queries
\* The store with a writer that makes one call at a time and searches that
\* may overlap an add_text call (the search route runs during an ingest).
\* The writer's (text, book_id) pairs include one text under two owners.
QueryPairs == { <<1, 2>>, <<2, 1>>, <<1, 1>> }

\* The inputs of rebuild: none, less than a batch, a batch, more than one.
RebuildInputs ==
  { <<>>, << <<1, 2>> >>, << <<1, 2>>, <<2, 1>> >>,
    << <<2, 1>>, <<1, 2>>, <<1, 1>> >> }

\* top_k of a search: the least the route allows, and more than the index
\* holds in most states
TopKs == { 1, 3 }

Budget ==
  calls.adds + calls.saves + calls.rebuilds + search.count < MaxCalls

WriterQ ==
  \/ /\ Budget
     /\ \/ \E p \in QueryPairs : CallAdd(p[1], p[2])
        \/ ForceSave
        \/ /\ search.pc = "idle"
           /\ \E texts_and_ids \in RebuildInputs : Rebuild(texts_and_ids)
  \/ AddReturn

WriterStep == WriterQ /\ UNCHANGED << st, reqs, tasks, books, aux >>

SearchStep ==
  /\ \/ /\ Budget
        /\ \E query \in 1..2, top_k \in TopKs : SearchCall(query, top_k)
     \/ SearchEncode
     \/ SearchReturn
  /\ UNCHANGED << st, reqs, tasks, books, cls, ocr >>

\* The process ends with a search in flight or not, and a new one starts.
RestartQ ==
  /\ Restart
  /\ search' = [ pc |-> "idle", count |-> search.count ]
  /\ UNCHANGED << st, reqs, tasks, books, cls, ocr >>

InitQ == Init /\ next_id = 0

NextQ == WriterStep \/ AddStep \/ SearchStep \/ RestartQ

SpecQ == InitQ /\ [][NextQ]_vars

\* ------------------------------------------------------------ GET /search
\* select(Book).where(Book.vector_id == vector_id): the ids of the rows
BooksWithVectorId(vector_id) ==
  { b \in 1..Len(books) : Exists(b) /\ books[b].vector_id = vector_id }

\* search_books lines 146-156: the loop over the results of
\* vector_store.search from number i on. Each result is (book_id, score);
\* the loop names its first component vector_id and looks the book up by it.
\* A hit is the first component with the book appended for it.
RECURSIVE SearchHits(_, _)
SearchHits(results, i) ==
  IF i > Len(results) THEN <<>>
  ELSE LET vector_id == results[i][1]
           found == BooksWithVectorId(vector_id)
       IN (IF found # {}
           THEN << [ of |-> vector_id, book |-> CHOOSE b \in found : TRUE ] >>
           ELSE <<>>)
          \o SearchHits(results, i + 1)

\* scalar_one_or_none raises when several rows match
SeveralRows(results) ==
  \E i \in 1..Len(results) : Cardinality(BooksWithVectorId(results[i][1])) > 1

\* search_books once vector_store.search has returned: lines 146-162
SearchBooksRespond ==
  /\ search.pc = "returned"
  /\ search' = [ pc |-> "responded", count |-> search.count,
                 result |-> search.result,
                 code |-> IF SeveralRows(search.result) THEN "500" ELSE "200",
                 hits |-> IF SeveralRows(search.result) THEN <<>>
                          ELSE SearchHits(search.result, 1) ]
  /\ UNCHANGED << st, reqs, tasks, books, vsvars, calls, cls, ocr >>

\* The response is sent.
SearchBooksDone ==
  /\ search.pc = "responded"
  /\ search' = [ pc |-> "idle", count |-> search.count ]
  /\ UNCHANGED << st, reqs, tasks, books, vsvars, calls, cls, ocr >>

\* search_books up to the return of vector_store.search: lines 142-144
SearchBooksCall ==
  /\ \/ /\ Budget
        /\ \E q \in 1..3, limit \in TopKs : SearchCall(q, limit)
     \/ SearchEncode
  /\ UNCHANGED << st, reqs, tasks, books, cls, ocr >>

\* The search route on a library of SaveEvery - 1 ingested books
InitR == Init /\ next_id = SaveEvery - 1

NextR == SearchBooksCall \/ SearchBooksRespond \/ SearchBooksDone

SpecR == InitR /\ [][NextR]_vars

\* ----------------------------------------------------------------- Classifier
\* A text is a sequence of words: 1, 2, 3 are the keywords "python",
\* "machine learning" and "deep learning", 11 is "Python" (1 in another
\* case), 0 is any other word.
Words == { 0, 1, 2, 3, 11 }

\* str.lower on a word
Lower(w) == w % 10

\* CATEGORY_RULES in iteration order; a name is a sequence of tokens. "deep
\* learning" is a keyword of two entries, as in lines 25 and 33.
CATEGORY_RULES ==
  << [ category |-> << "Programming" >>, subcategory |-> << "Python" >>,
       keywords |-> << 1 >> ],
     [ category |-> << "Data Science" >>,
       subcategory |-> << "Machine Learning" >>, keywords |-> << 2, 3 >> ],
     [ category |-> << "Artificial Intelligence" >>,
       subcategory |-> << "Deep Learning" >>, keywords |-> << 3 >> ] >>

\* ML_CATEGORIES: f"{cat} / {subcat}" of every entry
ML_CATEGORIES ==
  [ i \in 1..Len(CATEGORY_RULES) |->
      CATEGORY_RULES[i].category \o << " / " >> \o CATEGORY_RULES[i].subcategory ]

\* label.split(" / ")
RECURSIVE Split(_)
Split(label) ==
  IF \E i \in 1..Len(label) : label[i] = " / "
  THEN LET i == CHOOSE i \in 1..Len(label) :
                  /\ label[i] = " / "
                  /\ \A j \in 1..(i - 1) : label[j] # " / "
       IN << SubSeq(label, 1, i - 1) >> \o Split(SubSeq(label, i + 1, Len(label)))
  ELSE << label >>

\* len(re.findall(re.escape(kw), text_lower))
Occurrences(kw, text) ==
  Cardinality({ i \in 1..Len(text) : Lower(text[i]) = kw })

\* line 102: the capped count of one keyword
KeywordScore(count) == IF count < KeywordCap THEN count ELSE KeywordCap

\* lines 98-102: the score of one entry, from keyword number k on
RECURSIVE EntryScore(_, _, _)
EntryScore(keywords, text, k) ==
  IF k > Len(keywords) THEN 0
  ELSE KeywordScore(Occurrences(keywords[k], text))
       + EntryScore(keywords, text, k + 1)

\* line 104
Better_or_equal(score, best_score) == score >= best_score

Better(score, best_score) == score > best_score

\* line 112
RuleAccepts_strict(best_score) == best_score > MinRuleScore

RuleAccepts(best_score) == best_score >= MinRuleScore

\* lines 96-109: the loop from entry number i on; best_match 0 is None
RECURSIVE RuleLoop(_, _, _, _)
RuleLoop(text, i, best_match, best_score) ==
  IF i > Len(CATEGORY_RULES)
  THEN [ best_match |-> best_match, best_score |-> best_score ]
  ELSE LET score == EntryScore(CATEGORY_RULES[i].keywords, text, 1) IN
       IF Better(score, best_score)
       THEN RuleLoop(text, i + 1, i, score)
       ELSE RuleLoop(text, i + 1, best_match, best_score)

\* _rule_classify: the set holding the result dict, empty for None
_rule_classify(text) ==
  LET r == RuleLoop(text, 1, 0, 0) IN
  IF RuleAccepts(r.best_score)
  THEN { [ category |-> CATEGORY_RULES[r.best_match].category,
           subcategory |-> CATEGORY_RULES[r.best_match].subcategory ] }
  ELSE {}

\* What the embedding model does in _ml_classify: it raises (not installed,
\* load or encode error), or gives a best label and its similarity (times
\* 100).
MlOutcomes ==
  { [ raised |-> TRUE, best_idx |-> 1, best_score |-> 0 ] }
  \cup { [ raised |-> FALSE, best_idx |-> i, best_score |-> x ] :
           i \in 1..Len(ML_CATEGORIES), x \in { 29, 30, 95 } }

\* line 140
MlAccepts_strict(best_score) == best_score > MlThreshold

MlAccepts(best_score) == ~(best_score < MlThreshold)

\* _ml_classify given what the model did: the set holding the result dict
_ml_classify(out) ==
  IF out.raised THEN {}
  ELSE IF ~MlAccepts(out.best_score) THEN {}
  ELSE LET parts == Split(ML_CATEGORIES[out.best_idx]) IN
       { [ category |-> parts[1],
           subcategory |-> IF Len(parts) > 1 THEN parts[2] ELSE <<>>,
           confidence |-> out.best_score ] }

\* line 191; <<>> is the subcategory None
Uncategorized == [ category |-> << "Uncategorized" >>, subcategory |-> <<>> ]

\* classify(title, text, author): tier tells which return statement gave the
\* result, ml what the embedding model did when it was consulted.
classify ==
  /\ cls.pc = "called"
  /\ LET combined == cls.title \o cls.author \o cls.text
         rule == _rule_classify(combined)
     IN
     IF rule # {}
     THEN cls' = [ cls EXCEPT !.pc = "returned", !.tier = "rule",
                              !.result = CHOOSE r \in rule : TRUE ]
     ELSE \E out \in MlOutcomes :
            LET ml == _ml_classify(out) IN
            cls' = [ cls EXCEPT !.pc = "returned",
                                !.tier = IF ml # {} THEN "ml" ELSE "default",
                                !.result = IF ml # {}
                                           THEN CHOOSE r \in ml : TRUE
                                           ELSE Uncategorized,
                                !.ml = { out } ]
  /\ UNCHANGED << st, reqs, tasks, books, vsvars, calls, search, ocr >>

TextsUpTo(n) == UNION { [ 1..k -> Words ] : k \in 0..n }

\* The calls of classify: a title of at most one word, the author "Unknown"
\* (no keyword), a text of at most MaxTextLen words.
ClassifyCalls ==
  { [ pc |-> "called", title |-> title, author |-> << 0 >>, text |-> text,
      tier |-> "", result |-> Uncategorized, ml |-> {} ] :
      title \in TextsUpTo(1), text \in TextsUpTo(MaxTextLen) }

InitC == InitServer /\ next_id = 0 /\ cls \in ClassifyCalls /\ ocr = IdleOcr

NextC == classify

SpecC == InitC /\ [][NextC]_vars

\* ------------------------------------------------------------------------ OCR
\* chars_per_page < 100 * self.text_threshold, where chars_per_page is the
\* quotient len(text_content) / page_count of a positive page_count: the
\* quotient is below the cutoff 100 * (x10 / 10) exactly when the dividend is
\* below the cutoff times the divisor.
BelowCutoff_or_equal(length, page_count) ==
  length <= 10 * scanned_text_threshold_x10 * page_count

BelowCutoff(length, page_count) ==
  length < 10 * scanned_text_threshold_x10 * page_count

\* "not page_count": None and 0 are false
Falsy(page_count) == page_count = None_ \/ page_count = 0

\* OCRProcessor.is_scanned_pdf
is_scanned_pdf(length, page_count) ==
  IF Falsy(page_count) \/ page_count = 0 THEN FALSE
  ELSE BelowCutoff(length, page_count)

\* str.lower on a file suffix
LowerSuffix(suffix) == IF suffix = ".PDF" THEN ".pdf" ELSE suffix

Suffixes == { ".pdf", ".PDF", ".epub" }

\* len(metadata.text_content) and metadata.page_count of the files and calls
TextLengths == { 0, 9, 10, 19, 20, 50, 99, 100, 2000 }

PageCounts == { None_, 0, 1, 2, 10 }

\* A text is the pair of where it comes from and its length.
ExtractedText(length) == << "extractor", length >>

\* Either is_scanned_pdf is called by itself, or _process_single_file has
\* extracted the metadata of a file. scanned holds what is_scanned_pdf
\* returned once it was called, attempted tells that process_pdf was called,
\* ocr_text holds the text it returned (empty for None), text_content is
\* metadata.text_content, which goes into the record.
OcrCalls ==
  { [ pc |-> "called", kind |-> kind, suffix |-> suffix, length |-> length,
      page_count |-> page_count, scanned |-> {}, attempted |-> FALSE,
      ocr_processed |-> FALSE, ocr_text |-> {},
      text_content |-> ExtractedText(length) ] :
      kind \in { "is_scanned_pdf", "file" }, suffix \in Suffixes,
      length \in TextLengths, page_count \in PageCounts }

\* A call of is_scanned_pdf by itself
IsScannedCall ==
  /\ ocr.pc = "called"
  /\ ocr.kind = "is_scanned_pdf"
  /\ ocr' = [ ocr EXCEPT !.pc = "returned",
                         !.scanned = { is_scanned_pdf(ocr.length, ocr.page_count) } ]
  /\ UNCHANGED << st, reqs, tasks, books, vsvars, calls, search, cls >>

\* pipeline.py lines 47-52: the condition, evaluated from left to right
OcrCondition ==
  /\ ocr.pc = "called"
  /\ ocr.kind = "file"
  /\ IF LowerSuffix(ocr.suffix) = ".pdf" /\ ~Falsy(ocr.page_count)
     THEN LET scanned == is_scanned_pdf(ocr.length, ocr.page_count) IN
          ocr' = [ ocr EXCEPT !.pc = IF scanned THEN "process_pdf" ELSE "returned",
                              !.scanned = { scanned } ]
     ELSE ocr' = [ ocr EXCEPT !.pc = "returned" ]
  /\ UNCHANGED << st, reqs, tasks, books, vsvars, calls, search, cls >>

\* OCRProcessor.process_pdf: None (the empty set) when OCR is disabled, when
\* its libraries are missing and when it raised; else the joined text of the
\* pages, which is empty when no page gave any text.
process_pdf ==
  { {} } \cup { { << "ocr", length >> } : length \in { 0, 300 } }

\* pipeline.py line 54, "if ocr_text:" for None (no element) or a text
Truthy_not_none(ocr_text) == ocr_text # {}

Truthy(ocr_text) == \E text \in ocr_text : text[2] > 0

\* pipeline.py lines 53-56
ProcessPdf ==
  /\ ocr.pc = "process_pdf"
  /\ \E ocr_text \in process_pdf :
       ocr' = [ ocr EXCEPT
                  !.pc = "returned", !.attempted = TRUE, !.ocr_text = ocr_text,
                  !.text_content = IF Truthy(ocr_text)
                                   THEN CHOOSE text \in ocr_text : TRUE ELSE @,
                  !.ocr_processed = Truthy(ocr_text) ]
  /\ UNCHANGED << st, reqs, tasks, books, vsvars, calls, search, cls >>

InitO == InitServer /\ next_id = 0 /\ cls = IdleCls /\ ocr \in OcrCalls

NextO == IsScannedCall \/ OcrCondition \/ ProcessPdf

SpecO == InitO /\ [][NextO]_vars

\* ------------------------------------------------------------------ claims
Active == { t \in 1..Len(tasks) : tasks[t].pc # "done" }

Started(t) == t <= Len(tasks) /\ tasks[t].status # 0

Ended(t) == t <= Len(tasks) /\ tasks[t].pc = "done"

StatusOf(t) == st[tasks[t].status]

\* C1: at most one run is active at a time; a trigger handled while
\* is_running is true is answered 409 and starts nothing (no task, no new
\* status object), so of two triggers racing from Idle only one starts a run.
SingleFlight ==
  /\ [](Cardinality(Active) <= 1)
  /\ [][ (reqs'.pending < reqs.pending /\ st[Global].is_running)
           => (reqs'.last = "409" /\ tasks' = tasks /\ st' = st) ]_vars

\* Two triggers raced from idle: one was accepted, and the other was answered
\* 409 before the accepted run took its first step.
SingleFlightWitness ==
  /\ reqs.received = 2
  /\ reqs.pending = 0
  /\ reqs.last = "409"
  /\ Len(tasks) = 1
  /\ tasks[1].pc = "created"

\* C2: a run that has ended left is_running false on the status, and when an
\* exception escaped the pipeline its text is the last entry of the error
\* list; every task that was created ends (the exception does not kill it
\* before the cleanup): again and again no task is left unended.
RunEnds ==
  /\ [](\A t \in 1..Len(tasks) :
          (Ended(t) /\ Started(t)) =>
            /\ ~StatusOf(t).is_running
            /\ tasks[t].exc # "" =>
                 /\ StatusOf(t).errors # <<>>
                 /\ StatusOf(t).errors[Len(StatusOf(t).errors)]
                      = ErrorEntry(None_, tasks[t].exc))
  /\ []<>(Active = {})

\* A run ended by an exception of the existence check after a failed file.
RunEndsWitness ==
  \E t \in 1..Len(tasks) :
    /\ Ended(t) /\ Started(t)
    /\ tasks[t].exc = "lookup"
    /\ Len(StatusOf(t).errors) = 2
    /\ ~st[Global].is_running

\* C5: no file whose path has a record is in the worker pool, and no two
\* records have the same path.
NoDuplicateProcessing ==
  /\ \A t \in 1..Len(tasks) :
       tasks[t].pc = "worker" => ~PathStored(CurrentFile(tasks[t]))
  /\ \A i, j \in 1..Len(books) :
       books[i].file_path = books[j].file_path => i = j

\* The second listing of a path in one scan is skipped: the path was stored
\* by this run at its first listing.
NoDuplicateProcessingWitness ==
  \E t \in 1..Len(tasks) :
    /\ tasks[t].pc = "skip"
    /\ tasks[t].new_records > 0
    /\ \E j \in 1..tasks[t].idx : tasks[t].files[j] = CurrentFile(tasks[t])

SameDirs(t1, t2) == tasks[t1].dirs = tasks[t2].dirs

\* C6 as stated: of two runs over the same directories (both completing
\* without a run-level exception) the later one ends with processed_files =
\* total_files and failed_files = 0, and it creates no record and adds no
\* vector.
RerunIdempotent ==
  \A t1, t2 \in 1..Len(tasks) :
    (/\ t1 < t2 /\ SameDirs(t1, t2)
     /\ tasks[t1].exc = ""
     /\ Ended(t2) /\ Started(t2) /\ tasks[t2].exc = "") =>
      /\ StatusOf(t2).processed_files = StatusOf(t2).total_files
      /\ StatusOf(t2).failed_files = 0
      /\ tasks[t2].new_records = 0
      /\ tasks[t2].new_vectors = 0

\* C6 amended: when the earlier run ingested every file (it ended with
\* failed_files = 0 and without a run-level exception), the later run has
\* failed_files = 0, creates no record and adds no vector, and when it
\* completes without a run-level exception processed_files = total_files.
RerunAfterCleanRun ==
  \A t1, t2 \in 1..Len(tasks) :
    (t1 < t2 /\ SameDirs(t1, t2) /\ tasks[t1].clean /\ Started(t2)) =>
      /\ StatusOf(t2).failed_files = 0
      /\ tasks[t2].new_records = 0
      /\ tasks[t2].new_vectors = 0
      /\ (Ended(t2) /\ tasks[t2].exc = "") =>
           StatusOf(t2).processed_files = StatusOf(t2).total_files

RerunAfterCleanRunWitness ==
  \E t1, t2 \in 1..Len(tasks) :
    /\ t1 < t2 /\ SameDirs(t1, t2) /\ tasks[t1].clean
    /\ Ended(t2) /\ Started(t2) /\ tasks[t2].exc = ""
    /\ StatusOf(t2).total_files > 1
    /\ StatusOf(t2).processed_files = StatusOf(t2).total_files

\* C7: a run whose scan succeeded ends only after every file of the scan was
\* examined, whatever failed while a file was handled.
EveryFileExamined ==
  \A t \in 1..Len(tasks) :
    (Ended(t) /\ Started(t) /\ tasks[t].exc # "scan") =>
      tasks[t].idx = Len(tasks[t].files)

\* The step in which run t leaves the indexing of a stored record with a
\* failure: add_text returned None, or the indexing raised before the call.
IndexingFails(t) ==
  \/ tasks[t].pc = "index" /\ tasks'[t].pc # "index" /\ add.result = None_
  \/ tasks[t].pc = "store" /\ tasks'[t].pc # "index" /\ Len(books') > Len(books)

CompletedStatus ==
  \A t \in 1..Len(tasks) :
    (Ended(t) /\ Started(t) /\ tasks[t].exc = "") =>
      /\ StatusOf(t).progress_percent[1] = 100 * StatusOf(t).progress_percent[2]
      /\ StatusOf(t).current_file = None_
      /\ ~StatusOf(t).is_running

\* C10: while a run's status object is the same, no step decreases
\* processed_files, failed_files, the number of errors or progress_percent,
\* and current_file, the file at the run's position in the scan, never moves
\* to an earlier position.
StatusMonotonic ==
  [][ \A t \in 1..Len(tasks) :
        (Started(t) /\ tasks'[t].status = tasks[t].status) =>
          LET s == StatusOf(t)
              s2 == st'[tasks[t].status]
          IN
          /\ s2.processed_files >= s.processed_files
          /\ s2.failed_files >= s.failed_files
          /\ Len(s2.errors) >= Len(s.errors)
          /\ s2.progress_percent[1] * s.progress_percent[2]
               >= s.progress_percent[1] * s2.progress_percent[2]
          /\ s2.current_file # None_ =>
               /\ s2.current_file = CurrentFile(tasks'[t])
               /\ tasks'[t].idx >= tasks[t].idx ]_vars

\* A run at its last file, past the first one, with a failed file behind it.
StatusMonotonicWitness ==
  \E t \in 1..Len(tasks) :
    /\ Started(t) /\ ~Ended(t)
    /\ tasks[t].idx >= 1
    /\ tasks[t].idx = Len(tasks[t].files) - 1
    /\ StatusOf(t).processed_files + StatusOf(t).failed_files = tasks[t].idx
    /\ StatusOf(t).failed_files = 1
    /\ StatusOf(t).progress_percent[1] > 0
    /\ StatusOf(t).current_file = CurrentFile(tasks[t])

\* C3: outside an in-flight add, an initialised store has one mapping entry
\* for each vector position 0..size-1 and next_id equal to the number of
\* vectors.
IndexMapAgree ==
  (loaded /\ add.pc \notin {"encode", "saving"}) =>
    /\ DOMAIN id_map = 0..(Len(index) - 1)
    /\ next_id = Len(index)

\* C4: every successful add returned an id greater than all ids returned
\* before it (so none is returned twice).
IdsIncrease ==
  \A i, j \in 1..Len(ret_ids) : i < j => ret_ids[i] < ret_ids[j]

\* C11: the step of an accepted trigger makes a fresh status the global one
\* (counts 0, no error, no current file, progress 0, is_running true),
\* whatever the previous run left; and while the global status has is_running
\* false, no step other than an accepted trigger changes any field of it.
FreshThenFrozen ==
  [][ /\ Len(tasks') > Len(tasks) => st'[Len(st')] = IngestStatus(TRUE)
      /\ (~st[Global].is_running /\ Len(tasks') = Len(tasks)) =>
           (Len(st') = Len(st) /\ st'[Len(st')] = st[Global]) ]_vars

\* A second trigger is accepted after a run that ended by an escaped
\* exception (so with an error entry): its status is fresh.
FreshThenFrozenWitness ==
  /\ Len(tasks) = 2
  /\ tasks[1].exc # ""
  /\ tasks[2].pc = "created"
  /\ st[Global] = IngestStatus(TRUE)
  /\ reqs.last = "200"
\* C12: whatever is on disk when a process starts (also after a crash during
\* a persist, or with one of the two files missing), what _get_index loads
\* agrees: next_id is the size of the loaded index and every loaded vector
\* position has one mapping entry.
LoadedStateAgrees ==
  (~loaded /\ (disk_index.exists \/ disk_map.exists)) =>
    LET g == _get_index IN
    /\ g.next_id = Len(g.index)
    /\ DOMAIN g.id_map = 0..(Len(g.index) - 1)
\* C13: a search for text t that follows at once an add_text(t, id) that
\* returned a vector id, with no call in between, and that did not fail
\* itself, returns id first, with the score of a unit vector with itself.
AddThenSearchFindsIt ==
  (/\ search.pc = "returned" /\ ~search.failed
   /\ search.after # None_
   /\ add.pc = "returned" /\ add.book_id = search.after
   /\ add.text = search.query) =>
    /\ search.result # <<>>
    /\ search.result[1] = << search.after, Dot(ModelEncode(search.query),
                                               ModelEncode(search.query)) >>
\* C14: a search that found the index empty returned the empty list, and a
\* search of an index of n vectors returned at most min(top_k, n) entries.
SearchSizeBound ==
  search.pc = "returned" =>
    /\ search.n = 0 => (search.result = <<>> /\ ~search.failed)
    /\ Len(search.result) <= Min(search.top_k, search.n)

\* A search asked for more entries than the index holds and returned as many
\* as it holds.
SearchSizeBoundWitness ==
  /\ search.pc = "returned"
  /\ search.n >= 1
  /\ search.top_k > search.n
  /\ Len(search.result) = search.n
\* C15: when a search returns without having failed, its result holds, in
\* the order of the neighbours the index returned, the pair (id_map[v], score
\* of v) of every neighbour v that has a mapping entry, and nothing for a
\* neighbour that is the no-match index or has no entry; the scores do not
\* increase along the result.
SearchMapsNeighbours ==
  [][ (search.pc = "encode" /\ search'.pc = "returned" /\ ~search'.failed) =>
        LET qv == ModelEncode(search.query)
            HasOwner(v) == v # None_ /\ v \in DOMAIN id_map
            kept == SelectSeq(search'.nb, HasOwner)
            res == search'.result
        IN
        /\ Len(search'.nb) = Min(search.top_k, Len(index))
        /\ Len(res) = Len(kept)
        /\ \A i \in 1..Len(res) :
             res[i] = << id_map[kept[i]], Dot(index[kept[i] + 1], qv) >>
        /\ \A i, j \in 1..Len(res) : i < j => res[i][2] >= res[j][2] ]_vars

\* A search returned one entry for two neighbours: the other one has no
\* mapping entry.
SearchMapsNeighboursWitness ==
  /\ search.pc = "returned" /\ ~search.failed
  /\ Len(search.nb) = 2
  /\ Len(search.result) = 1
\* C16: when rebuild(pairs) returns, the index holds the len(pairs) vectors
\* of the pairs' texts in input order, id_map[i] is the owner of pair i for
\* i in 0..len(pairs)-1 and has no other entry, next_id = len(pairs), and
\* both files on disk hold this state.
RebuildReplacesAll ==
  [][ (/\ save.pc = "write_map" /\ save.by = "rebuild"
       /\ save'.pc = "idle" /\ loaded'
       /\ save'.rebuilt) =>
        LET pairs == save.pairs IN
        /\ Len(index') = Len(pairs)
        /\ \A i \in 1..Len(pairs) : index'[i] = ModelEncode(pairs[i][1])
        /\ DOMAIN id_map' = 0..(Len(pairs) - 1)
        /\ \A i \in 0..(Len(pairs) - 1) : id_map'[i] = pairs[i + 1][2]
        /\ next_id' = Len(pairs)
        /\ disk_index' = [ exists |-> TRUE, vecs |-> index' ]
        /\ disk_map' = [ exists |-> TRUE, id_map |-> id_map',
                         next_id |-> next_id' ] ]_vars

\* A rebuild of two pairs has returned on a store that held one vector
\* before, and nothing was added since.
RebuildReplacesAllWitness ==
  /\ save.pc = "idle" /\ "rebuilt" \in DOMAIN save /\ save.rebuilt
  /\ save.prior = 1
  /\ Len(index) = 2 /\ next_id = 2
  /\ disk_map.exists /\ disk_map.next_id = 2
  /\ index[1] # index[2]

\* The text classify works on, and what the claims say of it
Combined == cls.title \o cls.author \o cls.text

Hits(i) == EntryScore(CATEGORY_RULES[i].keywords, Combined, 1)

Entries == 1..Len(CATEGORY_RULES)

BestHits == CHOOSE x \in { Hits(i) : i \in Entries } : \A j \in Entries : Hits(j) <= x

PairOf(i) ==
  [ category |-> CATEGORY_RULES[i].category,
    subcategory |-> CATEGORY_RULES[i].subcategory ]

\* The entry with at least 3 capped hits that every other entry has fewer than
SoleWinner(i) ==
  /\ Hits(i) >= 3
  /\ \A j \in Entries \ { i } : Hits(j) < Hits(i)

FirstOfTiedWins ==
  cls.pc = "returned" =>
    LET tied == { i \in Entries : Hits(i) = BestHits } IN
    (BestHits >= 3 /\ Cardinality(tied) >= 2) =>
      /\ cls.tier = "rule"
      /\ cls.result = PairOf(CHOOSE i \in tied : \A j \in tied : i <= j)

\* Entries 2 and 3 tie on the keyword they share, and entry 2 is returned
FirstOfTiedWinsWitness ==
  /\ cls.pc = "returned"
  /\ Hits(2) = Hits(3)
  /\ Hits(2) >= 3
  /\ Hits(1) < Hits(2)
  /\ cls.result = PairOf(2)

\* C19: the embedding tier is consulted exactly when the best rule score is
\* below 3; its best label is returned, with the similarity as confidence,
\* when the similarity is at least 0.3; otherwise, also when the embedding
\* tier raised, the result is Uncategorized with no subcategory; only a
\* result of the embedding tier holds a confidence.
EmbeddingFallback ==
  cls.pc = "returned" =>
    /\ (cls.ml # {}) <=> (BestHits < 3)
    /\ \A out \in cls.ml :
         IF ~out.raised /\ out.best_score >= 30
         THEN /\ cls.tier = "ml"
              /\ cls.result = [ category |-> CATEGORY_RULES[out.best_idx].category,
                                subcategory |-> CATEGORY_RULES[out.best_idx].subcategory,
                                confidence |-> out.best_score ]
         ELSE /\ cls.tier = "default"
              /\ cls.result = [ category |-> << "Uncategorized" >>,
                                subcategory |-> <<>> ]
    /\ "confidence" \in DOMAIN cls.result => cls.tier = "ml"

\* A text with two hits at most, and a similarity of exactly 0.3
EmbeddingFallbackWitness ==
  /\ cls.pc = "returned"
  /\ BestHits = 2
  /\ \E out \in cls.ml : ~out.raised /\ out.best_score = 30 /\ out.best_idx = 3
  /\ cls.result.confidence = 30


\* C20: with the threshold 0.1, is_scanned_pdf returns true exactly when the
\* page count is positive and the text has fewer than 10 characters per page
\* (50 characters over 10 pages: true; 2000 over 10 pages: false); with a page
\* count of zero or None it returns false, and no recognition is attempted
\* for a file with such a page count.
ScannedCutoff ==
  /\ \A r \in ocr.scanned :
       r <=> (ocr.page_count # None_ /\ ocr.page_count > 0
              /\ ocr.length < 10 * ocr.page_count)
  /\ (ocr.length = 50 /\ ocr.page_count = 10) => ocr.scanned \subseteq { TRUE }
  /\ (ocr.length = 2000 /\ ocr.page_count = 10) => ocr.scanned \subseteq { FALSE }
  /\ (ocr.page_count = None_ \/ ocr.page_count = 0) =>
       /\ ocr.scanned \subseteq { FALSE }
       /\ ocr.pc # "process_pdf"
       /\ ~ocr.attempted
  /\ (ocr.pc = "returned" /\ ocr.kind = "is_scanned_pdf") => ocr.scanned # {}
  /\ ocr.attempted => ocr.scanned = { TRUE }

\* A file with 50 characters over 10 pages was found scanned and recognition
\* was attempted
ScannedCutoffWitness ==
  /\ ocr.kind = "file"
  /\ ocr.pc = "returned"
  /\ ocr.length = 50
  /\ ocr.page_count = 10
  /\ ocr.scanned = { TRUE }
  /\ ocr.attempted


\* C21 (as stated): for a PDF found scanned, a text returned by the
\* recognition, of any length, is the record's text content and the record is
\* flagged as recognition-processed; when the recognition returns None the
\* extractor's text is kept and the flag is false.
RecognizedTextReplaces ==
  (ocr.pc = "returned" /\ ocr.attempted) =>
    IF ocr.ocr_text # {}
    THEN ocr.text_content \in ocr.ocr_text /\ ocr.ocr_processed
    ELSE ocr.text_content = << "extractor", ocr.length >> /\ ~ocr.ocr_processed

\* C21 (amended): for a PDF found scanned, a non-empty text returned by the
\* recognition is the record's text content and the record is flagged as
\* recognition-processed; when the recognition returns None or an empty text
\* the extractor's text is kept and the flag is false.
NonEmptyRecognizedTextReplaces ==
  (ocr.pc = "returned" /\ ocr.attempted) =>
    IF \E text \in ocr.ocr_text : text[2] > 0
    THEN ocr.text_content \in ocr.ocr_text /\ ocr.ocr_processed
    ELSE ocr.text_content = << "extractor", ocr.length >> /\ ~ocr.ocr_processed

\* The recognition of a scanned PDF with some extracted text gave a text,
\* which replaced the extracted one
NonEmptyRecognizedTextReplacesWitness ==
  /\ ocr.pc = "returned"
  /\ ocr.attempted
  /\ ocr.length = 9
  /\ ocr.ocr_text = { << "ocr", 300 >> }
  /\ ocr.text_content = << "ocr", 300 >>
  /\ ocr.ocr_processed


\* The units of work on the pipeline's thread pool: the runs that await
\* run_in_executor, each with the file it works on
InFlight ==
  { << t, CurrentFile(tasks[t]) >> :
      t \in { u \in 1..Len(tasks) : tasks[u].pc = "worker" } }

\* Units of work of two different files are on the pool
TwoInFlight == \E a, b \in InFlight : a[2] # b[2]

\* A file is on the pool while a later file of the same scan has no record
LaterFileWaits ==
  \E t \in 1..Len(tasks) :
    /\ tasks[t].pc = "worker"
    /\ \E j \in (tasks[t].idx + 2)..Len(tasks[t].files) :
         /\ tasks[t].files[j] # CurrentFile(tasks[t])
         /\ ~PathStored(tasks[t].files[j])

\* C22: never more units of work are in flight than the pool has workers,
\* and the files make progress in parallel: while the unit of work of one
\* file is in flight and a later file of the scan is not ingested yet, the
\* pool gets to hold the units of work of two different files (unless the
\* first has returned by then).
ParallelProgress ==
  /\ [](Cardinality(InFlight) <= max_workers)
  /\ LaterFileWaits ~> (TwoInFlight \/ InFlight = {})

\* C23: a unit of work that never returns holds up neither the later files
\* of the scan, which the run goes on to examine, nor the end of the run:
\* is_running becomes false again.
HangIsLocal ==
  /\ \A i \in 0..(NumFiles - 1) :
       (\E t \in 1..Len(tasks) :
          /\ tasks[t].pc = "worker"
          /\ tasks[t].idx = i
          /\ i + 1 < Len(tasks[t].files))
       ~> (\E t \in 1..Len(tasks) : tasks[t].idx > i)
  /\ st[Global].is_running ~> ~st[Global].is_running


AfterRestart ==
  IF disk_index.exists
  THEN IF disk_map.exists
       THEN [ index |-> disk_index.vecs, id_map |-> disk_map.id_map,
              next_id |-> disk_map.next_id ]
       ELSE [ index |-> disk_index.vecs, id_map |-> <<>>, next_id |-> 0 ]
  ELSE [ index |-> <<>>, id_map |-> <<>>, next_id |-> 0 ]

\* C25: once a run has completed, every vector it added is in the persisted
\* index: a process started then loads the index, the mapping and the
\* next_id that are in memory, and the vector_id of every record resolves
\* to that record.
NoLostProgress ==
  \A t \in 1..Len(tasks) :
    (/\ Ended(t) /\ Started(t)
     /\ tasks[t].exc = ""
     /\ tasks[t].new_vectors > 0
     /\ Active = {})
    => /\ AfterRestart.index = index
       /\ AfterRestart.id_map = id_map
       /\ AfterRestart.next_id = next_id
       /\ \A b \in 1..Len(books) :
            books[b].vector_id # None_ =>
              /\ books[b].vector_id \in DOMAIN AfterRestart.id_map
              /\ AfterRestart.id_map[books[b].vector_id] = b


\* The VectorIndex a caller has before it: the initialised index, mapping
\* and counter
VectorIndexState == _get_index

\* C26: an add_text call that returns None has left the index, the mapping
\* and next_id as they were: the step that makes it return None changes none
\* of them, and the call has not inserted its vector before (the local
\* vector_id of line 95 is not set).
FailedAddChangesNothing ==
  [][ (add.pc \in { "encode", "saving" } /\ add'.pc = "returned"
       /\ add'.result = None_)
        => /\ VectorIndexState' = VectorIndexState
           /\ add.vector_id = None_ ]_vars


\* C27: every record with a vector id v is the owner the mapping gives for
\* v, and every owner in the mapping is a record of the store.
RecordsAndMapAgree ==
  /\ \A b \in 1..Len(books) :
       (Exists(b) /\ books[b].vector_id # None_) =>
         /\ books[b].vector_id \in DOMAIN id_map
         /\ id_map[books[b].vector_id] = b
  /\ \A v \in DOMAIN id_map : Exists(id_map[v])


\* C28: for every hit the search route returns, the book is the record whose
\* id is the owner id that VectorStore.search reported for the hit.
SearchReturnsOwners ==
  search.pc = "responded" =>
    \A i \in 1..Len(search.hits) : search.hits[i].book = search.hits[i].of


\* processed_files + failed_files of a status
Counted(s) == s.processed_files + s.failed_files

\* C29: in the status of a run the two counters never add up to more than
\* total_files; a step of the run counts at most one file, in one of the two
\* counters; every entry of the scan the run has left behind was counted
\* once, so the sum is the run's position in the scan; and a run that
\* completed without a run-level exception has counted total_files files.
CountersPartition ==
  /\ [](\A t \in 1..Len(tasks) :
          (Started(t) /\ tasks[t].status = Global) =>
            /\ Counted(StatusOf(t)) <= StatusOf(t).total_files
            /\ ~Ended(t) =>
                 Counted(StatusOf(t))
                   = tasks[t].idx + (IF tasks[t].pc = "skip" THEN 1 ELSE 0)
            /\ (Ended(t) /\ tasks[t].exc = "") =>
                 Counted(StatusOf(t)) = StatusOf(t).total_files)
  /\ [][ \A t \in 1..Len(tasks) :
           (Started(t) /\ tasks'[t].status = tasks[t].status
            /\ tasks[t].status = Global /\ Len(st') = Len(st)) =>
             LET s == StatusOf(t)
                 s2 == st'[tasks[t].status]
             IN
             \/ /\ s2.processed_files = s.processed_files
                /\ s2.failed_files = s.failed_files
             \/ /\ s2.processed_files = s.processed_files + 1
                /\ s2.failed_files = s.failed_files
             \/ /\ s2.processed_files = s.processed_files
                /\ s2.failed_files = s.failed_files + 1 ]_vars

\* A run over two files completed: one file was ingested, one failed
CountersPartitionWitness ==
  \E t \in 1..Len(tasks) :
    /\ Ended(t) /\ Started(t)
    /\ tasks[t].status = Global
    /\ tasks[t].exc = ""
    /\ StatusOf(t).total_files = 2
    /\ StatusOf(t).processed_files = 1
    /\ StatusOf(t).failed_files = 1


\* C30: a trigger answered 409 (a run is active) or 400 (no directories, or
\* a directory that does not exist) leaves every status object as it is, the
\* global one included, and creates no task; nothing else of the server
\* changes either.
RejectedTriggerChangesNothing ==
  [][ (reqs'.pending < reqs.pending /\ reqs'.last \in { "409", "400" })
        => /\ st' = st
           /\ tasks' = tasks
           /\ books' = books
           /\ reqs'.received = reqs.received ]_vars

\* After a completed run that ingested a file, a trigger was answered 400:
\* the status still shows that run.
RejectedTriggerChangesNothingWitness ==
  /\ reqs.received = 2
  /\ reqs.pending = 0
  /\ reqs.last = "400"
  /\ Len(tasks) = 1
  /\ tasks[1].pc = "done"
  /\ ~st[Global].is_running
  /\ st[Global].processed_files > 0
  /\ st[Global].total_files > 0

====
